---- MODULE Spec2Model ----
(***************************************************************************)
(* Planning-poker session core of Athilla/PokerPlanner.                    *)
(*                                                                         *)
(* The model covers the entity store (MemStorage of server/storage.ts),    *)
(* the WebSocket gateway and the REST routes of the server routes file     *)
(* (unnamed/part_013).  In the specification Spec every handler runs to    *)
(* completion before the next one starts, so one action is one whole       *)
(* handler, all its storage calls and all its sends included.              *)
(***************************************************************************)
EXTENDS Integers, Sequences, FiniteSets, TLC

(* ----------------------------- bounds ---------------------------------- *)
MaxSessions == 2
MaxStories == 2
MaxBacklog == 3
MaxParticipants == 1
MaxConns == 2
\* participant records in the specification of the join requests
MaxJoiners == 2
\* join requests in flight at a time
MaxRequests == 2
\* votes in a list given to calculateFinalEstimate
MaxVotes == 3
\* entries of a short custom scale typed into the form
MaxEntries == 3

(* --------------------------- input domains ----------------------------- *)
\* null / undefined of the source (finalEstimate: null, an unset client field)
Null == -1

\* DEV_MODE flag of the routes file
DEV_MODE == TRUE

\* accounts of the users table; DevUser is the one with firebaseId 'dev-firebase-id'
Users == {1, 2}
DevUser == 1

\* credentials a caller can present: none, a development token, a token
\* that Firebase refuses, and a valid Firebase token of account 2
Tokens == {"", "mock-token-dev", "invalid", "idtoken-2"}

SessionIds == 1..MaxSessions
StoryIds == 1..MaxBacklog
ParticipantIds == 1..MaxParticipants
Conns == 1..MaxConns
JoinerIds == 1..MaxJoiners
Requests == 1..MaxRequests

\* aliases a join request can carry
Aliases == {"ann", "Ann"}

\* vote values a client can send (4 is not on the Fibonacci scale)
Values == {3, 4}

\* finalEstimate payloads of next_story: absent, or a number
FinalEstimates == {Null, 5}

\* scales a create-session request can carry
Scales == {<<1, 2, 3, 5, 8, 13, 21, 34, 55, 89>>}

\* notificationsEnabled of a create-session request
NotificationFlags == {TRUE}

VARIABLES
  sessions,            \* MemStorage.sessions: id -> [hostId, scale, notificationsEnabled]
  userStories,         \* MemStorage.userStories: id -> story record
  participants,        \* MemStorage.participants: id -> [sessionId, alias, isConnected]
  votes,               \* MemStorage.votes: set of [participantId, userStoryId, value, nth]
  sessionIdCounter,    \* next fresh session id (uuidv4)
  userStoryIdCounter,  \* MemStorage.userStoryIdCounter
  participantIdCounter,\* next fresh participant id (uuidv4)
  clients,             \* the clients map: connection -> WSClient
  pending,             \* vote handlers suspended at an await: connection -> its locals
  joining,             \* join requests suspended at an await: request -> its locals
  advancing,           \* skip/next handlers suspended at an await: connection -> its locals
  sent,                \* the WebSocket messages sent by the last handler
  skipped,             \* history: stories that an accepted skip_story left
  revealed,            \* history: stories revealed since activation / restart
  restartCleared,      \* history: (participant, story) votes the last restart deleted
  observers,           \* which of the history variables this specification keeps
  call                 \* the call of a pure function under study: arguments and result

store == <<sessions, userStories, participants, votes, sessionIdCounter,
           userStoryIdCounter, participantIdCounter>>
\* the connections and the handlers in flight
wire == <<clients, pending, joining, advancing>>
\* the variables that no handler reads or writes
history == <<skipped, revealed, restartCleared, observers, call>>
vars == <<sessions, userStories, participants, votes, sessionIdCounter,
          userStoryIdCounter, participantIdCounter,
          clients, pending, joining, advancing, sent, skipped, revealed, restartCleared, observers,
          call>>

(* ------------------------------ helpers -------------------------------- *)
Min(S) == CHOOSE x \in S : \A y \in S : x <= y

RECURSIVE SumSeq(_)
SumSeq(s) == IF s = <<>> THEN 0 ELSE Head(s) + SumSeq(Tail(s))

RECURSIVE SetToSeq(_)
SetToSeq(S) == IF S = {} THEN <<>> ELSE LET m == Min(S) IN <<m>> \o SetToSeq(S \ {m})

\* String.prototype.toLowerCase on the aliases of the model
toLowerCase(a) == IF a = "Ann" THEN "ann" ELSE a

(* --------------------------- scale, estimate --------------------------- *)
generateFibonacciScale == <<1, 2, 3, 5, 8, 13, 21, 34, 55, 89>>

\* variant of firstAtLeast that wants a value above the average
RECURSIVE firstAtLeast_Above(_, _, _)
firstAtLeast_Above(scale, sum, n) ==
  IF scale = <<>> THEN Null
  ELSE IF Head(scale) * n > sum THEN Head(scale)
  ELSE firstAtLeast_Above(Tail(scale), sum, n)

\* value >= avg  with avg = sum / n, kept in integers: value * n >= sum
RECURSIVE firstAtLeast(_, _, _)
firstAtLeast(scale, sum, n) ==
  IF scale = <<>> THEN Null
  ELSE IF Head(scale) * n >= sum THEN Head(scale)
  ELSE firstAtLeast(Tail(scale), sum, n)

calculateFinalEstimate(values, scale) ==
  IF Len(values) = 0 THEN 0
  ELSE LET hit == firstAtLeast(scale, SumSeq(values), Len(values))
       IN IF hit # Null THEN hit ELSE scale[Len(scale)]

(* --------------------------- custom scale ------------------------------ *)
\* A string is the sequence of its characters.
DigitChars == <<"0", "1", "2", "3", "4", "5", "6", "7", "8", "9">>

IsDigit(ch) == \E i \in 1..10 : DigitChars[i] = ch

DigitValue(ch) == (CHOOSE i \in 1..10 : DigitChars[i] = ch) - 1

\* String.prototype.split(",")
split(str) ==
  LET commas == {i \in 1..Len(str) : str[i] = ","}
      nth(k) == CHOOSE p \in commas : Cardinality({c \in commas : c <= p}) = k
      first(k) == IF k = 1 THEN 1 ELSE nth(k - 1) + 1
      last(k) == IF k = Cardinality(commas) + 1 THEN Len(str) ELSE nth(k) - 1
  IN [k \in 1..(Cardinality(commas) + 1) |-> SubSeq(str, first(k), last(k))]

\* String.prototype.trim
RECURSIVE trim(_)
trim(str) ==
  IF str # <<>> /\ Head(str) = " " THEN trim(Tail(str))
  ELSE IF str # <<>> /\ str[Len(str)] = " " THEN trim(SubSeq(str, 1, Len(str) - 1))
  ELSE str

\* /^\d+$/.test(s)
testDigits(str) == str # <<>> /\ \A i \in 1..Len(str) : IsDigit(str[i])

\* Number(s), for a string of decimal digits
RECURSIVE Number(_)
Number(str) ==
  IF str = <<>> THEN 0
  ELSE 10 * Number(SubSeq(str, 1, Len(str) - 1)) + DigitValue(str[Len(str)])

\* variant of sortAscending that leaves the order of the entries
sortAscending_Unsorted(ns) == ns

\* .sort((a, b) => a - b)
sortAscending(ns) == SortSeq(ns, LAMBDA a, b : a < b)

\* the most values onSubmit sends: customScale.slice(0, 100)
ScaleLimit == 100

\* split(",").map(trim).filter(/^\d+$/).map(Number).sort(...)
customScale(str) ==
  LET parts == split(str)
      trimmed == [i \in 1..Len(parts) |-> trim(parts[i])]
      numbers == SelectSeq(trimmed, testDigits)
  IN sortAscending([i \in 1..Len(numbers) |-> Number(numbers[i])])

\* CreateSessionForm.onSubmit: the scale of the create-session request
onSubmit(scaleType, str) ==
  IF scaleType = "fibonacci" THEN generateFibonacciScale
  ELSE LET cs == customScale(str)
       IN IF Len(cs) = 0 THEN generateFibonacciScale
          ELSE IF Len(cs) > ScaleLimit THEN SubSeq(cs, 1, ScaleLimit)
          ELSE cs

(* ------------------------------ storage -------------------------------- *)
\* { ...record, ...updates }
Merge(rec, updates) ==
  [f \in DOMAIN rec |-> IF f \in DOMAIN updates THEN updates[f] ELSE rec[f]]

RECURSIVE SortByOrder(_, _)
SortByOrder(us, ids) ==
  IF ids = {} THEN <<>>
  ELSE LET m == CHOOSE i \in ids : \A j \in ids :
                   \/ us[i].order < us[j].order
                   \/ (us[i].order = us[j].order /\ i <= j)
       IN <<m>> \o SortByOrder(us, ids \ {m})

\* the ids of the stories of a session, ascending by order
getUserStories(us, sessionId) ==
  SortByOrder(us, {i \in DOMAIN us : us[i].sessionId = sessionId})

\* first active story of the session in map (insertion) order, or Null
getActiveUserStory(us, sessionId) ==
  LET act == {i \in DOMAIN us : us[i].sessionId = sessionId /\ us[i].isActive}
  IN IF act = {} THEN Null ELSE Min(act)

updateUserStory(us, id, updates) ==
  IF id \notin DOMAIN us THEN us
  ELSE [us EXCEPT ![id] = Merge(us[id], updates)]

\* variant of setActiveUserStory that leaves the currently active story as it is
setActiveUserStory_KeepCurrent(us, sessionId, userStoryId) ==
  updateUserStory(us, userStoryId, [isActive |-> TRUE])

setActiveUserStory(us, sessionId, userStoryId) ==
  LET currentActive == getActiveUserStory(us, sessionId)
      us1 == IF currentActive # Null /\ currentActive # userStoryId
             THEN updateUserStory(us, currentActive, [isActive |-> FALSE])
             ELSE us
  IN updateUserStory(us1, userStoryId, [isActive |-> TRUE])

markUserStoryCompleted(us, id, finalEstimate) ==
  updateUserStory(us, id, [isActive |-> FALSE, isCompleted |-> TRUE,
                           finalEstimate |-> finalEstimate])

\* the story record createUserStory stores
\* variant of createUserStory that stores the story as active
createUserStory_Active(sessionId, order) ==
  [sessionId |-> sessionId, order |-> order, finalEstimate |-> Null,
   isActive |-> TRUE, isCompleted |-> FALSE]

createUserStory(sessionId, order) ==
  [sessionId |-> sessionId, order |-> order, finalEstimate |-> Null,
   isActive |-> FALSE, isCompleted |-> FALSE]

getParticipantByAlias(ps, sessionId, alias) ==
  LET hit == {p \in DOMAIN ps : /\ ps[p].sessionId = sessionId
                                /\ toLowerCase(ps[p].alias) = toLowerCase(alias)}
  IN IF hit = {} THEN Null ELSE Min(hit)

\* DatabaseStorage.getParticipantByAlias: the rows of the query, which compares
\* the stored alias with the lowercased argument
DatabaseStorage_getParticipantByAlias(ps, sessionId, alias) ==
  {p \in DOMAIN ps : ps[p].sessionId = sessionId /\ ps[p].alias = toLowerCase(alias)}

getSessionParticipants(ps, sessionId) ==
  {p \in DOMAIN ps : ps[p].sessionId = sessionId}

updateParticipant(ps, id, updates) ==
  IF id \notin DOMAIN ps THEN ps ELSE [ps EXCEPT ![id] = Merge(ps[id], updates)]

\* variant of updateParticipantConnection that leaves the flag as it is
updateParticipantConnection_Keep(ps, id, isConnected) == ps

updateParticipantConnection(ps, id, isConnected) ==
  IF id \notin DOMAIN ps THEN ps
  ELSE [ps EXCEPT ![id] = Merge(ps[id], [isConnected |-> isConnected])]

\* The votes map holds one entry per vote id.  A vote is identified here by its
\* pair and by nth, its rank in insertion order among the stored votes of the
\* pair: nth is 1 unless the map holds more than one vote of the pair.
VotesOfPair(vs, participantId, userStoryId) ==
  {v \in vs : v.participantId = participantId /\ v.userStoryId = userStoryId}

\* the first stored vote of the pair, as a set: {} stands for undefined
getVote(vs, participantId, userStoryId) ==
  LET mine == VotesOfPair(vs, participantId, userStoryId)
  IN {v \in mine : \A w \in mine : v.nth <= w.nth}

getVotesByUserStory(vs, userStoryId) == {v \in vs : v.userStoryId = userStoryId}

\* the rank a vote of the pair gets when it is put at the end of the map
nextNth(vs, participantId, userStoryId) ==
  LET used == {v.nth : v \in VotesOfPair(vs, participantId, userStoryId)}
  IN IF used = {} THEN 1 ELSE 1 + CHOOSE u \in used : \A w \in used : w <= u

\* createOrUpdateVote after its 'await this.getVote(...)', existingVote being what
\* that call returned: votes.set(String(existingVote.id), { ...existingVote, value })
\* or votes.set(String(id), { ...vote, id }) with a fresh id.  nth = 0 in
\* existingVote says that the vote it names has been deleted from the map since.
writeVote(vs, existingVote, participantId, userStoryId, value) ==
  LET fresh == [participantId |-> participantId, userStoryId |-> userStoryId,
                value |-> value, nth |-> nextNth(vs, participantId, userStoryId)]
  IN IF existingVote = {} THEN vs \cup {fresh}
     ELSE LET e == CHOOSE v \in existingVote : TRUE
              stored == {v \in VotesOfPair(vs, e.participantId, e.userStoryId) :
                           v.nth = e.nth}
          IN IF stored = {}
             THEN vs \cup {[e EXCEPT !.value = value,
                              !.nth = nextNth(vs, e.participantId, e.userStoryId)]}
             ELSE (vs \ stored) \cup {[e EXCEPT !.value = value]}

\* the votes map after createOrUpdateVote, run without interruption
createOrUpdateVote(vs, participantId, userStoryId, value) ==
  writeVote(vs, getVote(vs, participantId, userStoryId), participantId, userStoryId, value)

\* variant of clearVotesForUserStory that deletes the votes of every story
clearVotesForUserStory_All(vs, userStoryId) == {}

\* variant of clearVotesForUserStory that deletes the votes of the other stories
clearVotesForUserStory_Others(vs, userStoryId) == getVotesByUserStory(vs, userStoryId)

\* variant of clearVotesForUserStory that deletes nothing
clearVotesForUserStory_Nothing(vs, userStoryId) == vs

clearVotesForUserStory(vs, userStoryId) == {v \in vs : v.userStoryId # userStoryId}

(* ----------------------------- messages -------------------------------- *)
\* a message on the wire; the fields a message type does not carry stay at their defaults
Msg(to, type) ==
  [to |-> to, type |-> type, message |-> "", userStoryId |-> Null,
   nextStoryId |-> Null, participantId |-> Null, value |-> Null,
   votes |-> {}, notificationsEnabled |-> FALSE]

ErrorMsg(to, message) == [Msg(to, "error") EXCEPT !.message = message]

\* the connections broadcastToSession sends to
Receivers(sessionId, excludeClients) ==
  {c \in DOMAIN clients : clients[c].sessionId = sessionId /\ c \notin excludeClients}

\* msg is the message as built for receiver Null
broadcastToSession(sessionId, msg, excludeClients) ==
  {[msg EXCEPT !.to = c] : c \in Receivers(sessionId, excludeClients)}

(* ------------------------- history bookkeeping ------------------------- *)
IsActiveIn(us, id) == id \in DOMAIN us /\ us[id].isActive

\* The history variables record what the handlers did; no handler reads them.
\* us is the story map after the handler; sk, rev and rc are the new values of
\* skipped, revealed and restartCleared.  skipped keeps stored stories only,
\* revealed and restartCleared speak of stories that are still active.
Record(us, sk, rev, rc) ==
  /\ skipped' = IF "skipped" \in observers THEN sk \cap DOMAIN us ELSE skipped
  /\ revealed' = IF "rounds" \in observers
                 THEN {s \in rev : IsActiveIn(us, s)} ELSE revealed
  /\ restartCleared' = IF "rounds" \in observers
                       THEN {pr \in rc : IsActiveIn(us, pr[2])} ELSE restartCleared
  /\ UNCHANGED <<observers, call>>

(* --------------------------- authentication ---------------------------- *)
IsDevToken(token) == token = "mock-token-dev"

\* the account auth.verifyIdToken + getUserByFirebaseId yield, Null when it throws
verifyIdToken(token) ==
  IF token = "idtoken-1" THEN 1 ELSE IF token = "idtoken-2" THEN 2 ELSE Null

\* req.body.userId after the authenticateJWT middleware, Null when refused
authenticateJWT(token) ==
  IF token = "" THEN Null
  ELSE IF DEV_MODE /\ IsDevToken(token) THEN DevUser
  ELSE IF DEV_MODE THEN DevUser
  ELSE verifyIdToken(token)

\* the userId handleHostJoinSession continues with, Null for 'Authentication failed'
hostAuth(token, userId) ==
  IF token = "" THEN Null
  ELSE IF DEV_MODE /\ IsDevToken(token) THEN DevUser
  ELSE IF verifyIdToken(token) = Null \/ verifyIdToken(token) # userId THEN Null
  ELSE userId

(* ------------------------------- Init ---------------------------------- *)
\* new MemStorage(), new Map<WebSocket, WSClient>(); no history yet
Constructed ==
  /\ sessions = <<>>
  /\ userStories = <<>>
  /\ participants = <<>>
  /\ votes = {}
  /\ sessionIdCounter = 1
  /\ userStoryIdCounter = 1
  /\ participantIdCounter = 1
  /\ clients = <<>>
  /\ pending = <<>>
  /\ joining = <<>>
  /\ advancing = <<>>
  /\ sent = {}
  /\ skipped = {}
  /\ revealed = {}
  /\ restartCleared = {}

\* no pure function is under study
NoCall == [fn |-> "none"]

Init == Constructed /\ observers = {} /\ call = NoCall

\* the same program, with the history of the voting rounds kept
InitRounds == Constructed /\ observers = {"rounds"} /\ call = NoCall

\* the same program, with the history of the skips kept
InitSkips == Constructed /\ observers = {"skipped"} /\ call = NoCall

Put(f, k, v) == [x \in DOMAIN f \cup {k} |-> IF x = k THEN v ELSE f[x]]
Drop(f, K) == [x \in DOMAIN f \ K |-> f[x]]

(* ------------------------- connection events --------------------------- *)
\* the messages of the previous handler have left the process
Delivered == sent = {}

\* ws.send: the sockets take the messages of the handler that just ran
Deliver ==
  /\ sent # {}
  /\ sent' = {}
  /\ UNCHANGED <<store, wire, history>>

\* wss.on('connection')
Connect(c) ==
  /\ Delivered
  /\ c \notin DOMAIN clients
  /\ clients' = Put(clients, c, [sessionId |-> Null, participantId |-> Null,
                                 isHost |-> FALSE, userId |-> Null])
  /\ sent' = {}
  /\ UNCHANGED <<store, pending, joining, advancing, history>>

\* ws.on('close')
Close(c) ==
  /\ Delivered
  /\ c \in DOMAIN clients
  /\ LET client == clients[c] IN
     IF client.participantId # Null
     THEN /\ participants' = updateParticipantConnection(participants, client.participantId, FALSE)
          /\ sent' = broadcastToSession(client.sessionId,
                       [Msg(Null, "participant_disconnected") EXCEPT
                          !.participantId = client.participantId], {c})
     ELSE /\ participants' = participants
          /\ sent' = {}
  /\ clients' = Drop(clients, {c})
  /\ UNCHANGED <<sessions, userStories, votes, sessionIdCounter, userStoryIdCounter,
                 participantIdCounter, pending, joining, advancing, history>>

(* ------------------------- message handlers ---------------------------- *)
\* What a handler leaves behind: the maps it can write, the messages it sent,
\* whether the message passed the handler's checks, and the stories it activated.
Outcome ==
  [userStories |-> userStories, votes |-> votes, participants |-> participants,
   clients |-> clients, sent |-> {}, accepted |-> FALSE, activated |-> {}]

\* return sendToClient(client, { type: 'error', message })
Reject(c, message) == [Outcome EXCEPT !.sent = {ErrorMsg(c, message)}]

\* first active story of the session in order, or Null: userStories.find(s => s.isActive)
findActive(us, sessionId) ==
  LET all == getUserStories(us, sessionId)
      idx == {i \in 1..Len(all) : us[all[i]].isActive}
  IN IF idx = {} THEN Null ELSE all[Min(idx)]

\* variant of joinedVotes that sends the votes of the active story as they are
joinedVotes_Always(us, vs, activeStory) ==
  IF activeStory # Null THEN getVotesByUserStory(vs, activeStory) ELSE {}

\* votes of session_joined: activeStory?.isCompleted ? votes : []
joinedVotes(us, vs, activeStory) ==
  IF activeStory # Null /\ us[activeStory].isCompleted
  THEN getVotesByUserStory(vs, activeStory) ELSE {}

handleJoinSession(c, sessionId, participantId) ==
  IF sessionId \notin DOMAIN sessions
  THEN Reject(c, "Session not found")
  ELSE LET cs == [clients EXCEPT ![c] = Merge(clients[c],
                    [sessionId |-> sessionId, participantId |-> participantId])]
       IN IF participantId \notin DOMAIN participants
          THEN [Reject(c, "Participant not found") EXCEPT !.clients = cs]
          ELSE LET activeStory == findActive(userStories, sessionId)
                   vs == joinedVotes(userStories, votes, activeStory)
               IN [Outcome EXCEPT
                     !.clients = cs,
                     !.participants = updateParticipantConnection(participants, participantId, TRUE),
                     !.sent = {[Msg(c, "session_joined") EXCEPT
                                  !.userStoryId = activeStory, !.votes = vs,
                                  !.notificationsEnabled =
                                     sessions[sessionId].notificationsEnabled]}
                              \cup broadcastToSession(sessionId,
                                     [Msg(Null, "participant_joined") EXCEPT
                                        !.participantId = participantId], {c}),
                     !.accepted = TRUE]

handleHostJoinSession(c, sessionId, userId, token) ==
  LET uid == hostAuth(token, userId) IN
  IF uid = Null THEN Reject(c, "Authentication failed")
  ELSE IF sessionId \notin DOMAIN sessions THEN Reject(c, "Session not found")
  ELSE IF sessions[sessionId].hostId # uid
  THEN Reject(c, "You are not the host of this session")
  ELSE LET all == getUserStories(userStories, sessionId)
           completedStoryVotes ==
             {v \in votes : \E i \in 1..Len(all) :
                               userStories[all[i]].isCompleted /\ v.userStoryId = all[i]}
           cs == [clients EXCEPT ![c] = Merge(clients[c],
                    [sessionId |-> sessionId, userId |-> uid, isHost |-> TRUE])]
       IN [Outcome EXCEPT
             !.clients = cs,
             !.sent = {[Msg(c, "host_session_joined") EXCEPT
                          !.userStoryId = findActive(userStories, sessionId),
                          !.votes = completedStoryVotes,
                          !.notificationsEnabled = sessions[sessionId].notificationsEnabled]}
                      \cup broadcastToSession(sessionId, Msg(Null, "host_connected"), {c}),
             !.accepted = TRUE]

\* variant of the story check that does not look at isActive
CanVoteOn_NotCompleted(us, userStoryId, sessionId) ==
  /\ userStoryId \in DOMAIN us
  /\ us[userStoryId].sessionId = sessionId
  /\ ~us[userStoryId].isCompleted

\* variant of the story check that does not compare the session
CanVoteOn_AnySession(us, userStoryId, sessionId) ==
  /\ userStoryId \in DOMAIN us
  /\ us[userStoryId].isActive
  /\ ~us[userStoryId].isCompleted

\* the story check of handleVote
CanVoteOn(us, userStoryId, sessionId) ==
  /\ userStoryId \in DOMAIN us
  /\ us[userStoryId].sessionId = sessionId
  /\ us[userStoryId].isActive
  /\ ~us[userStoryId].isCompleted

\* the sender check of handleVote
MayVote(client, sessionId) ==
  client.participantId # Null /\ client.sessionId = sessionId

\* handleVote from its call of createOrUpdateVote on, existingVote being what the
\* getVote call in it returned
recordVote(c, sessionId, userStoryId, value, participantId, existingVote) ==
  LET vs == writeVote(votes, existingVote, participantId, userStoryId, value)
      activeParticipants == {p \in getSessionParticipants(participants, sessionId) :
                               participants[p].isConnected}
      allVoted == \A p \in activeParticipants :
                     \E v \in getVotesByUserStory(vs, userStoryId) : v.participantId = p
  IN [Outcome EXCEPT
        !.votes = vs,
        !.sent = {[Msg(c, "vote_recorded") EXCEPT
                     !.userStoryId = userStoryId, !.value = value]}
                 \cup broadcastToSession(sessionId,
                        [Msg(Null, "participant_voted") EXCEPT
                           !.participantId = participantId,
                           !.userStoryId = userStoryId], {})
                 \cup (IF allVoted /\ activeParticipants # {}
                       THEN broadcastToSession(sessionId,
                              [Msg(Null, "all_voted") EXCEPT
                                 !.userStoryId = userStoryId,
                                 !.notificationsEnabled =
                                    sessions[sessionId].notificationsEnabled], {})
                       ELSE {}),
        !.accepted = TRUE]

\* the error handleVote answers with, "" when the vote passes its checks
voteError(c, sessionId, userStoryId) ==
  IF ~MayVote(clients[c], sessionId) THEN "Not authorized to vote in this session"
  ELSE IF ~CanVoteOn(userStories, userStoryId, sessionId) THEN "Cannot vote on this story"
  ELSE ""

handleVote(c, sessionId, userStoryId, value) ==
  IF voteError(c, sessionId, userStoryId) # ""
  THEN Reject(c, voteError(c, sessionId, userStoryId))
  ELSE recordVote(c, sessionId, userStoryId, value, clients[c].participantId,
                  getVote(votes, clients[c].participantId, userStoryId))

\* variant of the sender check that does not compare the session
IsHostOf_AnySession(client, sessionId) == client.isHost

\* the sender check of the host commands
IsHostOf(client, sessionId) == client.isHost /\ client.sessionId = sessionId

\* the story check of reveal_votes, restart_vote and skip_story
IsActiveStoryOf(us, userStoryId, sessionId) ==
  /\ userStoryId \in DOMAIN us
  /\ us[userStoryId].sessionId = sessionId
  /\ us[userStoryId].isActive

\* variant of handleRevealVotes that stores the estimate it computed in the story
handleRevealVotes_Persist(c, sessionId, userStoryId) ==
  IF ~IsHostOf(clients[c], sessionId)
  THEN Reject(c, "Only the host can reveal votes")
  ELSE IF ~IsActiveStoryOf(userStories, userStoryId, sessionId)
  THEN Reject(c, "Cannot reveal votes for this story")
  ELSE LET vs == getVotesByUserStory(votes, userStoryId)
           voters == SetToSeq({v.participantId : v \in vs})
           voteValues == [i \in 1..Len(voters) |->
                            (CHOOSE v \in vs : v.participantId = voters[i]).value]
           finalEstimate == calculateFinalEstimate(voteValues, sessions[sessionId].scale)
       IN [Outcome EXCEPT
             !.userStories = updateUserStory(userStories, userStoryId,
                                             [finalEstimate |-> finalEstimate]),
             !.sent = broadcastToSession(sessionId,
                        [Msg(Null, "votes_revealed") EXCEPT
                           !.userStoryId = userStoryId, !.votes = vs,
                           !.value = finalEstimate], {}),
             !.accepted = TRUE]

handleRevealVotes(c, sessionId, userStoryId) ==
  IF ~IsHostOf(clients[c], sessionId)
  THEN Reject(c, "Only the host can reveal votes")
  ELSE IF ~IsActiveStoryOf(userStories, userStoryId, sessionId)
  THEN Reject(c, "Cannot reveal votes for this story")
  ELSE LET vs == getVotesByUserStory(votes, userStoryId)
           voters == SetToSeq({v.participantId : v \in vs})
           voteValues == [i \in 1..Len(voters) |->
                            (CHOOSE v \in vs : v.participantId = voters[i]).value]
           finalEstimate == calculateFinalEstimate(voteValues, sessions[sessionId].scale)
       IN [Outcome EXCEPT
             !.sent = broadcastToSession(sessionId,
                        [Msg(Null, "votes_revealed") EXCEPT
                           !.userStoryId = userStoryId, !.votes = vs,
                           !.value = finalEstimate], {}),
             !.accepted = TRUE]

handleRestartVote(c, sessionId, userStoryId) ==
  IF ~IsHostOf(clients[c], sessionId)
  THEN Reject(c, "Only the host can restart voting")
  ELSE IF ~IsActiveStoryOf(userStories, userStoryId, sessionId)
  THEN Reject(c, "Cannot restart voting for this story")
  ELSE [Outcome EXCEPT
          !.votes = clearVotesForUserStory(votes, userStoryId),
          !.sent = broadcastToSession(sessionId,
                     [Msg(Null, "voting_restarted") EXCEPT !.userStoryId = userStoryId], {}),
          !.accepted = TRUE]

\* allStories.slice(currentIndex + 1).filter(s => !s.isCompleted); findIndex gives -1
\* for a story that is not in the list, and the slice is then the whole list
nextStories(us, sessionId, userStoryId) ==
  LET allStories == getUserStories(us, sessionId)
      found == {i \in 1..Len(allStories) : allStories[i] = userStoryId}
      currentIndex == IF found = {} THEN 0 ELSE Min(found)
      NotCompleted(id) == ~us[id].isCompleted
  IN SelectSeq(SubSeq(allStories, currentIndex + 1, Len(allStories)), NotCompleted)

handleSkipStory(c, sessionId, userStoryId) ==
  IF ~IsHostOf(clients[c], sessionId)
  THEN Reject(c, "Only the host can skip stories")
  ELSE IF ~IsActiveStoryOf(userStories, userStoryId, sessionId)
  THEN Reject(c, "Cannot skip this story")
  ELSE LET us1 == updateUserStory(userStories, userStoryId, [isActive |-> FALSE])
           next == nextStories(us1, sessionId, userStoryId)
       IN IF Len(next) > 0
          THEN [Outcome EXCEPT
                  !.userStories = setActiveUserStory(us1, sessionId, next[1]),
                  !.votes = clearVotesForUserStory(votes, next[1]),
                  !.sent = broadcastToSession(sessionId,
                             [Msg(Null, "story_skipped") EXCEPT
                                !.userStoryId = userStoryId, !.nextStoryId = next[1]], {}),
                  !.accepted = TRUE,
                  !.activated = {next[1]}]
          ELSE [Outcome EXCEPT
                  !.userStories = us1,
                  !.sent = broadcastToSession(sessionId,
                             [Msg(Null, "all_stories_completed") EXCEPT
                                !.userStoryId = userStoryId], {}),
                  !.accepted = TRUE]

handleNextStory(c, sessionId, currentStoryId, finalEstimate) ==
  IF ~IsHostOf(clients[c], sessionId)
  THEN Reject(c, "Only the host can move to the next story")
  ELSE LET us1 == markUserStoryCompleted(userStories, currentStoryId, finalEstimate)
           next == nextStories(us1, sessionId, currentStoryId)
       IN IF Len(next) > 0
          THEN [Outcome EXCEPT
                  !.userStories = setActiveUserStory(us1, sessionId, next[1]),
                  !.votes = clearVotesForUserStory(votes, next[1]),
                  !.sent = broadcastToSession(sessionId,
                             [Msg(Null, "next_story_activated") EXCEPT
                                !.userStoryId = currentStoryId, !.nextStoryId = next[1],
                                !.value = finalEstimate], {}),
                  !.accepted = TRUE,
                  !.activated = {next[1]}]
          ELSE [Outcome EXCEPT
                  !.userStories = us1,
                  !.sent = broadcastToSession(sessionId,
                             [Msg(Null, "all_stories_completed") EXCEPT
                                !.userStoryId = currentStoryId,
                                !.value = finalEstimate], {}),
                  !.accepted = TRUE]

\* The storage calls of handleSkipStory, in order: 1 getUserStory,
\* 2 updateUserStory, 3 getUserStories, 4 setActiveUserStory,
\* 5 clearVotesForUserStory; those of handleNextStory: 1 markUserStoryCompleted,
\* 2 getUserStories, 3 setActiveUserStory, 4 clearVotesForUserStory.
\* failAt is the call whose promise is rejected; the calls before it have
\* taken effect, and the catch block answers the sender.
FailPoints == 1..5

handleSkipStoryFailing(c, sessionId, userStoryId, failAt) ==
  IF ~IsHostOf(clients[c], sessionId)
  THEN Reject(c, "Only the host can skip stories")
  ELSE IF failAt = 1
  THEN Reject(c, "Failed to skip story")
  ELSE IF ~IsActiveStoryOf(userStories, userStoryId, sessionId)
  THEN Reject(c, "Cannot skip this story")
  ELSE IF failAt = 2
  THEN Reject(c, "Failed to skip story")
  ELSE LET us1 == updateUserStory(userStories, userStoryId, [isActive |-> FALSE])
           next == nextStories(us1, sessionId, userStoryId)
       IN IF failAt = 3 \/ (failAt = 4 /\ Len(next) > 0)
          THEN [Reject(c, "Failed to skip story") EXCEPT !.userStories = us1]
          ELSE IF failAt = 5 /\ Len(next) > 0
          THEN [Reject(c, "Failed to skip story") EXCEPT
                  !.userStories = setActiveUserStory(us1, sessionId, next[1])]
          ELSE handleSkipStory(c, sessionId, userStoryId)

handleNextStoryFailing(c, sessionId, currentStoryId, finalEstimate, failAt) ==
  IF ~IsHostOf(clients[c], sessionId)
  THEN Reject(c, "Only the host can move to the next story")
  ELSE IF failAt = 1
  THEN Reject(c, "Failed to move to next story")
  ELSE LET us1 == markUserStoryCompleted(userStories, currentStoryId, finalEstimate)
           next == nextStories(us1, sessionId, currentStoryId)
       IN IF failAt = 2 \/ (failAt = 3 /\ Len(next) > 0)
          THEN [Reject(c, "Failed to move to next story") EXCEPT !.userStories = us1]
          ELSE IF failAt = 4 /\ Len(next) > 0
          THEN [Reject(c, "Failed to move to next story") EXCEPT
                  !.userStories = setActiveUserStory(us1, sessionId, next[1])]
          ELSE handleNextStory(c, sessionId, currentStoryId, finalEstimate)

(* ------------------------- ws.on('message') ---------------------------- *)
\* A suspended vote handler holds the vote its getVote call returned; when that
\* vote is deleted from the map the handler's copy names no stored vote any more.
Dangle(pd, vs) ==
  [c \in DOMAIN pd |->
     [pd[c] EXCEPT !.existingVote =
        {IF \E v \in vs : /\ v.participantId = e.participantId
                          /\ v.userStoryId = e.userStoryId
                          /\ v.nth = e.nth
         THEN e ELSE [e EXCEPT !.nth = 0] : e \in @}]]

\* the handler has run to completion: its writes and its sends take effect
Handled(r) ==
  /\ userStories' = r.userStories
  /\ votes' = r.votes
  /\ participants' = r.participants
  /\ clients' = r.clients
  /\ sent' = r.sent
  /\ pending' = Dangle(pending, r.votes)
  /\ UNCHANGED <<joining, advancing>>
  /\ UNCHANGED <<sessions, sessionIdCounter, userStoryIdCounter, participantIdCounter>>

\* case 'join_session'
join_session(c, sessionId, participantId) ==
  /\ Delivered
  /\ c \in DOMAIN clients
  /\ Handled(handleJoinSession(c, sessionId, participantId))
  /\ UNCHANGED history

\* case 'host_join_session'
host_join_session(c, sessionId, userId, token) ==
  /\ Delivered
  /\ c \in DOMAIN clients
  /\ Handled(handleHostJoinSession(c, sessionId, userId, token))
  /\ UNCHANGED history

\* case 'vote'
vote(c, sessionId, userStoryId, value) ==
  /\ Delivered
  /\ c \in DOMAIN clients
  /\ Handled(handleVote(c, sessionId, userStoryId, value))
  /\ UNCHANGED history

\* case 'vote', up to the await of getVote in createOrUpdateVote: the handler has
\* made its checks and holds what getVote returned; other handlers run meanwhile
vote_begin(c, sessionId, userStoryId, value) ==
  /\ Delivered
  /\ c \in DOMAIN clients
  /\ c \notin DOMAIN pending
  /\ IF voteError(c, sessionId, userStoryId) # ""
     THEN Handled(handleVote(c, sessionId, userStoryId, value))
     ELSE /\ pending' = Put(pending, c,
                 [sessionId |-> sessionId, userStoryId |-> userStoryId, value |-> value,
                  participantId |-> clients[c].participantId,
                  existingVote |-> getVote(votes, clients[c].participantId, userStoryId)])
          /\ sent' = {}
          /\ UNCHANGED <<store, clients>>
  /\ UNCHANGED <<joining, advancing, history>>

\* case 'vote', resumed: the write of createOrUpdateVote and the rest of handleVote
vote_end(c) ==
  /\ Delivered
  /\ c \in DOMAIN pending
  /\ c \in DOMAIN clients
  /\ LET l == pending[c]
         r == recordVote(c, l.sessionId, l.userStoryId, l.value, l.participantId,
                         l.existingVote)
     IN /\ votes' = r.votes
        /\ sent' = r.sent
        /\ pending' = Drop(pending, {c})
  /\ UNCHANGED <<sessions, userStories, participants, sessionIdCounter,
                 userStoryIdCounter, participantIdCounter, clients, joining, advancing, history>>

\* case 'reveal_votes'
reveal_votes(c, sessionId, userStoryId) ==
  /\ Delivered
  /\ c \in DOMAIN clients
  /\ LET r == handleRevealVotes(c, sessionId, userStoryId) IN
     /\ Handled(r)
     /\ IF r.accepted
        THEN Record(userStories, skipped, revealed \cup {userStoryId}, restartCleared)
        ELSE UNCHANGED history

\* case 'restart_vote'
restart_vote(c, sessionId, userStoryId) ==
  /\ Delivered
  /\ c \in DOMAIN clients
  /\ LET r == handleRestartVote(c, sessionId, userStoryId) IN
     /\ Handled(r)
     /\ IF r.accepted
        THEN Record(userStories, skipped, revealed \ {userStoryId},
                    {<<v.participantId, userStoryId>> :
                       v \in getVotesByUserStory(votes, userStoryId)})
        ELSE UNCHANGED history

\* case 'skip_story'
skip_story(c, sessionId, userStoryId) ==
  /\ Delivered
  /\ c \in DOMAIN clients
  /\ LET r == handleSkipStory(c, sessionId, userStoryId) IN
     /\ Handled(r)
     /\ IF r.accepted
        THEN Record(r.userStories, skipped \cup {userStoryId},
                    revealed \ r.activated, restartCleared)
        ELSE UNCHANGED history

\* case 'next_story'
next_story(c, sessionId, currentStoryId, finalEstimate) ==
  /\ Delivered
  /\ c \in DOMAIN clients
  /\ LET r == handleNextStory(c, sessionId, currentStoryId, finalEstimate) IN
     /\ Handled(r)
     /\ IF r.accepted
        THEN Record(r.userStories, skipped, revealed \ r.activated, restartCleared)
        ELSE UNCHANGED history

\* case 'skip_story', with a storage call that fails
skip_story_failing(c, sessionId, userStoryId, failAt) ==
  /\ Delivered
  /\ c \in DOMAIN clients
  /\ Handled(handleSkipStoryFailing(c, sessionId, userStoryId, failAt))
  /\ UNCHANGED history

\* case 'next_story', with a storage call that fails
next_story_failing(c, sessionId, currentStoryId, finalEstimate, failAt) ==
  /\ Delivered
  /\ c \in DOMAIN clients
  /\ Handled(handleNextStoryFailing(c, sessionId, currentStoryId, finalEstimate, failAt))
  /\ UNCHANGED history

\* skip_story and next_story handlers held at their awaits, while other
\* handlers run.  handleSkipStory is held after its checks (before
\* updateUserStory), after it chose the next story from getUserStories (before
\* setActiveUserStory) and before clearVotesForUserStory; handleNextStory at the
\* last two.  A handler that is refused, or finds no next story, runs to its
\* end.  One handler per connection is held at a time.
\* case 'skip_story', up to the await of updateUserStory
skip_begin(c, sessionId, userStoryId) ==
  /\ Delivered
  /\ c \in DOMAIN clients
  /\ c \notin DOMAIN advancing
  /\ LET r == handleSkipStory(c, sessionId, userStoryId) IN
     IF ~r.accepted
     THEN Handled(r)
     ELSE /\ advancing' = Put(advancing, c,
                 [sessionId |-> sessionId, userStoryId |-> userStoryId,
                  nextStoryId |-> Null, msg |-> Msg(Null, "story_skipped"),
                  stage |-> "deactivate"])
          /\ sent' = {}
          /\ UNCHANGED <<store, clients, pending, joining>>
  /\ UNCHANGED history

\* skip_story resumed: updateUserStory(userStoryId, { isActive: false }) and the
\* choice of the next story
advance_deactivate(c) ==
  /\ Delivered
  /\ c \in DOMAIN advancing
  /\ advancing[c].stage = "deactivate"
  /\ LET l == advancing[c]
         us1 == updateUserStory(userStories, l.userStoryId, [isActive |-> FALSE])
         next == nextStories(us1, l.sessionId, l.userStoryId)
     IN /\ userStories' = us1
        /\ Record(us1, skipped \cup {l.userStoryId}, revealed, restartCleared)
        /\ IF Len(next) > 0
           THEN /\ advancing' = [advancing EXCEPT ![c] =
                     [l EXCEPT !.nextStoryId = next[1], !.stage = "activate",
                               !.msg = [Msg(Null, "story_skipped") EXCEPT
                                          !.userStoryId = l.userStoryId,
                                          !.nextStoryId = next[1]]]]
                /\ sent' = {}
           ELSE /\ advancing' = Drop(advancing, {c})
                /\ sent' = broadcastToSession(l.sessionId,
                             [Msg(Null, "all_stories_completed") EXCEPT
                                !.userStoryId = l.userStoryId], {})
  /\ UNCHANGED <<sessions, participants, votes, sessionIdCounter, userStoryIdCounter,
                 participantIdCounter, clients, pending, joining>>

\* case 'next_story', up to the await of setActiveUserStory
next_begin(c, sessionId, currentStoryId, finalEstimate) ==
  /\ Delivered
  /\ c \in DOMAIN clients
  /\ c \notin DOMAIN advancing
  /\ LET r == handleNextStory(c, sessionId, currentStoryId, finalEstimate) IN
     /\ IF ~r.accepted \/ r.activated = {}
        THEN Handled(r)
        ELSE /\ userStories' = markUserStoryCompleted(userStories, currentStoryId,
                                                      finalEstimate)
             /\ advancing' = Put(advancing, c,
                    [sessionId |-> sessionId, userStoryId |-> currentStoryId,
                     nextStoryId |-> CHOOSE n \in r.activated : TRUE,
                     msg |-> [Msg(Null, "next_story_activated") EXCEPT
                                !.userStoryId = currentStoryId,
                                !.nextStoryId = CHOOSE n \in r.activated : TRUE,
                                !.value = finalEstimate],
                     stage |-> "activate"])
             /\ sent' = {}
             /\ UNCHANGED <<sessions, participants, votes, sessionIdCounter,
                            userStoryIdCounter, participantIdCounter, clients, pending,
                            joining>>
     /\ IF r.accepted
        THEN Record(userStories', skipped, revealed, restartCleared)
        ELSE UNCHANGED history

\* skip_story or next_story resumed: await storage.setActiveUserStory(sessionId, nextStory.id)
advance_activate(c) ==
  /\ Delivered
  /\ c \in DOMAIN advancing
  /\ advancing[c].stage = "activate"
  /\ LET l == advancing[c] IN
     /\ userStories' = setActiveUserStory(userStories, l.sessionId, l.nextStoryId)
     /\ Record(userStories', skipped, revealed \ {l.nextStoryId}, restartCleared)
  /\ advancing' = [advancing EXCEPT ![c].stage = "clear"]
  /\ sent' = {}
  /\ UNCHANGED <<sessions, participants, votes, sessionIdCounter, userStoryIdCounter,
                 participantIdCounter, clients, pending, joining>>

\* skip_story or next_story resumed: await storage.clearVotesForUserStory(nextStory.id)
\* and the broadcast of the transition
advance_clear(c) ==
  /\ Delivered
  /\ c \in DOMAIN advancing
  /\ advancing[c].stage = "clear"
  /\ LET l == advancing[c] IN
     /\ votes' = clearVotesForUserStory(votes, l.nextStoryId)
     /\ pending' = Dangle(pending, votes')
     /\ sent' = broadcastToSession(l.sessionId, l.msg, {})
  /\ advancing' = Drop(advancing, {c})
  /\ UNCHANGED <<sessions, userStories, participants, sessionIdCounter, userStoryIdCounter,
                 participantIdCounter, clients, joining, history>>

(* ---------------------------- REST routes ------------------------------ *)
\* the stories POST /sessions creates: order = index in the request's list
RECURSIVE createStories(_, _, _, _)
createStories(us, sessionId, firstId, n) ==
  IF n = 0 THEN us
  ELSE Put(createStories(us, sessionId, firstId, n - 1),
           firstId + n - 1, createUserStory(sessionId, n - 1))

\* POST /sessions
CreateSession(token, n, scale, notificationsEnabled) ==
  /\ Delivered
  /\ authenticateJWT(token) # Null
  /\ LET id == sessionIdCounter
         us1 == createStories(userStories, id, userStoryIdCounter, n)
         all == getUserStories(us1, id)
     IN /\ sessions' = Put(sessions, id, [hostId |-> authenticateJWT(token), scale |-> scale,
                                          notificationsEnabled |-> notificationsEnabled])
        /\ userStories' = IF Len(all) > 0 THEN setActiveUserStory(us1, id, all[1]) ELSE us1
        /\ sessionIdCounter' = sessionIdCounter + 1
        /\ userStoryIdCounter' = userStoryIdCounter + n
  /\ sent' = {}
  /\ UNCHANGED <<participants, votes, participantIdCounter, wire, history>>

\* MemStorage.deleteSession
deleteSessionStories(us, id) == Drop(us, {i \in DOMAIN us : us[i].sessionId = id})
deleteSessionVotes(vs, us, id) ==
  {v \in vs : ~(v.userStoryId \in DOMAIN us /\ us[v.userStoryId].sessionId = id)}
deleteSessionParticipants(ps, id) == Drop(ps, {p \in DOMAIN ps : ps[p].sessionId = id})

\* DELETE /sessions/:id: the status of the reply and the maps the route leaves
deleteSessionRoute(token, id) ==
  LET userId == authenticateJWT(token)
      kept == [sessions |-> sessions, userStories |-> userStories,
               participants |-> participants, votes |-> votes]
  IN IF userId = Null THEN [status |-> 401] @@ kept
     ELSE IF id \notin DOMAIN sessions THEN [status |-> 404] @@ kept
     ELSE IF sessions[id].hostId # userId THEN [status |-> 403] @@ kept
     ELSE [status |-> 200,
           sessions |-> Drop(sessions, {id}),
           userStories |-> deleteSessionStories(userStories, id),
           participants |-> deleteSessionParticipants(participants, id),
           votes |-> deleteSessionVotes(votes, userStories, id)]

\* DELETE /sessions/:id
DeleteSession(token, id) ==
  /\ Delivered
  /\ authenticateJWT(token) # Null
  /\ LET r == deleteSessionRoute(token, id) IN
     /\ sessions' = r.sessions
     /\ userStories' = r.userStories
     /\ participants' = r.participants
     /\ votes' = r.votes
     /\ IF r.status = 200
        THEN /\ sent' = broadcastToSession(id, Msg(Null, "session_deleted"), {})
             /\ pending' = Dangle(pending, r.votes)
             /\ Record(r.userStories, skipped, revealed, restartCleared)
        ELSE /\ sent' = {}
             /\ UNCHANGED <<pending, history>>
  /\ UNCHANGED <<sessionIdCounter, userStoryIdCounter, participantIdCounter,
                 clients, joining, advancing>>

createParticipant(ps, id, sessionId, alias) ==
  Put(ps, id, [sessionId |-> sessionId, alias |-> alias, isConnected |-> TRUE])

\* the participant object a lookup returns: a copy of the stored record
Row(ps, p) == [id |-> p, isConnected |-> ps[p].isConnected]

\* what "limit 1" may return of the rows found: nothing, or any one row
FirstOf(ps, found) == IF found = {} THEN {{}} ELSE {{Row(ps, p)} : p \in found}

\* POST /sessions/:id/join, from the result of getParticipantByAlias on:
\* existingParticipant is {} or holds the participant object found
joinSession(sessionId, alias, existingParticipant) ==
  IF existingParticipant # {}
  THEN LET e == CHOOSE x \in existingParticipant : TRUE IN
       IF e.isConnected
       THEN [participants |-> participants, participantIdCounter |-> participantIdCounter,
             status |-> 409, participant |-> Null]
       ELSE [participants |-> updateParticipant(participants, e.id, [isConnected |-> TRUE]),
             participantIdCounter |-> participantIdCounter,
             status |-> 200, participant |-> e.id]
  ELSE [participants |-> createParticipant(participants, participantIdCounter,
                                           sessionId, alias),
        participantIdCounter |-> participantIdCounter + 1,
        status |-> 201, participant |-> participantIdCounter]

\* POST /sessions/:id/join on MemStorage, where no await gives way to another request
JoinRequest(sessionId, alias) ==
  /\ Delivered
  /\ sessionId \in DOMAIN sessions
  /\ LET p == getParticipantByAlias(participants, sessionId, alias)
         r == joinSession(sessionId, alias,
                          IF p = Null THEN {} ELSE {Row(participants, p)})
     IN /\ r.status = 201 => participantIdCounter <= MaxParticipants
        /\ participants' = r.participants
        /\ participantIdCounter' = r.participantIdCounter
  /\ sent' = {}
  /\ UNCHANGED <<sessions, userStories, votes, sessionIdCounter, userStoryIdCounter,
                 wire, history>>

\* POST /sessions/:id/join on DatabaseStorage, up to the answer of the
\* getParticipantByAlias query; other requests and handlers run meanwhile
join_begin(q, sessionId, alias) ==
  /\ Delivered
  /\ q \notin DOMAIN joining
  /\ sessionId \in DOMAIN sessions
  /\ \E e \in FirstOf(participants,
                      DatabaseStorage_getParticipantByAlias(participants, sessionId, alias)) :
       joining' = Put(joining, q, [sessionId |-> sessionId, alias |-> alias,
                                   existingParticipant |-> e])
  /\ sent' = {}
  /\ UNCHANGED <<store, clients, pending, advancing, history>>

\* POST /sessions/:id/join on DatabaseStorage, resumed: the write and the reply
join_end(q) ==
  /\ Delivered
  /\ q \in DOMAIN joining
  /\ LET l == joining[q]
         r == joinSession(l.sessionId, l.alias, l.existingParticipant)
     IN /\ r.status = 201 => participantIdCounter <= MaxJoiners
        /\ participants' = r.participants
        /\ participantIdCounter' = r.participantIdCounter
  /\ joining' = Drop(joining, {q})
  /\ sent' = {}
  /\ UNCHANGED <<sessions, userStories, votes, sessionIdCounter, userStoryIdCounter,
                 clients, pending, advancing, history>>

(* --------------------------- specification ----------------------------- *)
\* create-session requests: at most maxSessions sessions, and maxStories stories
\* in all of them together
Create(maxSessions, maxStories) ==
  \E token \in Tokens, n \in 1..maxStories, scale \in Scales, ne \in NotificationFlags :
    /\ sessionIdCounter <= maxSessions
    /\ userStoryIdCounter + n - 1 <= maxStories
    /\ CreateSession(token, n, scale, ne)

\* create-session requests of one session, with notificationsEnabled on or off
CreateFlagged(maxStories) ==
  \E token \in Tokens, n \in 1..maxStories, scale \in Scales, ne \in BOOLEAN :
    /\ sessionIdCounter <= 1
    /\ userStoryIdCounter + n - 1 <= maxStories
    /\ CreateSession(token, n, scale, ne)

\* connections, and the host's side of the protocol
HostSide ==
  \/ Deliver
  \/ \E c \in Conns : Connect(c)
  \/ \E c \in Conns, id \in SessionIds, u \in Users, token \in Tokens :
       host_join_session(c, id, u, token)
  \/ \E c \in Conns, id \in SessionIds, st \in StoryIds : reveal_votes(c, id, st)
  \/ \E c \in Conns, id \in SessionIds, st \in StoryIds : restart_vote(c, id, st)
  \/ \E c \in Conns, id \in SessionIds, st \in StoryIds : skip_story(c, id, st)
  \/ \E c \in Conns, id \in SessionIds, st \in StoryIds, fe \in FinalEstimates :
       next_story(c, id, st, fe)

\* the participants' side of the protocol
ParticipantSide ==
  \/ \E id \in SessionIds, alias \in Aliases : JoinRequest(id, alias)
  \/ \E c \in Conns, id \in SessionIds, p \in ParticipantIds : join_session(c, id, p)
  \/ \E c \in Conns, id \in SessionIds, st \in StoryIds, v \in Values :
       vote(c, id, st, v)

\* connections closing and sessions being deleted
Lifecycle ==
  \/ \E c \in Conns : Close(c)
  \/ \E token \in Tokens, id \in SessionIds : DeleteSession(token, id)

\* one session of up to MaxStories stories, every operation of the server
Next == HostSide \/ ParticipantSide \/ Lifecycle \/ Create(1, MaxStories)

\* up to MaxSessions sessions with MaxStories stories in all
NextTwo == HostSide \/ ParticipantSide \/ Create(MaxSessions, MaxStories)

\* one session and its voting rounds
NextRounds == HostSide \/ ParticipantSide \/ Create(1, MaxStories)

\* one session of up to MaxBacklog stories and its host
NextBacklog == HostSide \/ Create(1, MaxBacklog)

\* one session and its participants; a vote handler is suspended at its await
\* while other handlers run
NextRace ==
  \/ Deliver
  \/ \E c \in Conns : Connect(c)
  \/ \E id \in SessionIds, alias \in Aliases : JoinRequest(id, alias)
  \/ \E c \in Conns, id \in SessionIds, p \in ParticipantIds : join_session(c, id, p)
  \/ \E c \in Conns, id \in SessionIds, st \in StoryIds, v \in Values :
       vote_begin(c, id, st, v)
  \/ \E c \in Conns : vote_end(c)
  \/ \E c \in Conns, id \in SessionIds, u \in Users, token \in Tokens :
       host_join_session(c, id, u, token)
  \/ \E c \in Conns, id \in SessionIds, st \in StoryIds : restart_vote(c, id, st)
  \/ Create(1, MaxStories)

\* one session on DatabaseStorage and the participants coming and going; a join
\* request is suspended at its query while other requests run
NextJoin ==
  \/ Deliver
  \/ \E c \in Conns : Connect(c)
  \/ \E c \in Conns : Close(c)
  \/ \E q \in Requests, id \in SessionIds, alias \in Aliases : join_begin(q, id, alias)
  \/ \E q \in Requests : join_end(q)
  \/ \E c \in Conns, id \in SessionIds, p \in JoinerIds : join_session(c, id, p)
  \/ Create(1, MaxStories)

\* one session with or without notifications, and its participants voting
NextFlagged ==
  \/ Deliver
  \/ \E c \in Conns : Connect(c)
  \/ \E c \in Conns : Close(c)
  \/ ParticipantSide
  \/ CreateFlagged(MaxStories)

\* vote lists and scales given to calculateFinalEstimate
EstimateValues == {-2, 0, 3, 5, 8, 90}
VoteLists == UNION {[1..n -> EstimateValues] : n \in 0..MaxVotes}
EstimateScales ==
  {generateFibonacciScale} \cup {SetToSeq(S) : S \in SUBSET {1, 3, 5, 8} \ {{}}}

\* entries typed into the custom scale field, and the field's text
Entries == {<<"1">>, <<"2">>, <<"x">>, <<"5", "0">>, <<"3">>, <<"0">>, <<" ", "2">>,
            <<"1", ".", "5">>, <<>>}

RECURSIVE ToDigits(_)
ToDigits(n) ==
  IF n < 10 THEN <<DigitChars[n + 1]>>
  ELSE ToDigits(n \div 10) \o <<DigitChars[(n % 10) + 1]>>

\* n, n-1, ..., 1
Countdown(n) == [i \in 1..n |-> ToDigits(n + 1 - i)]

EntryLists ==
  UNION {[1..n -> Entries] : n \in 1..MaxEntries}
    \cup {<<<<"1">>, <<"2">>, <<"x">>, <<"5", "0">>, <<"3">>>>}
    \cup {Countdown(n) : n \in {ScaleLimit, ScaleLimit + 1, ScaleLimit + 30}}

\* the entries with commas between them
RECURSIVE Join(_)
Join(entries) ==
  IF Len(entries) = 1 THEN entries[1]
  ELSE LET half == Len(entries) \div 2
       IN Join(SubSeq(entries, 1, half)) \o <<",">>
            \o Join(SubSeq(entries, half + 1, Len(entries)))

\* a call of calculateFinalEstimate or of onSubmit, not yet made
InitScale ==
  /\ Constructed
  /\ observers = {}
  /\ call \in {[fn |-> "calculateFinalEstimate", values |-> v, scale |-> sc,
                done |-> FALSE, result |-> Null] :
                  v \in VoteLists, sc \in EstimateScales}
              \cup {[fn |-> "onSubmit", scaleType |-> "custom", entries |-> e,
                     customScale |-> Join(e), done |-> FALSE, result |-> <<>>] :
                       e \in EntryLists}
              \cup {[fn |-> "onSubmit", scaleType |-> "fibonacci", entries |-> <<<<>>>>,
                     customScale |-> <<>>, done |-> FALSE, result |-> <<>>]}

Estimate ==
  /\ call.fn = "calculateFinalEstimate"
  /\ ~call.done
  /\ call' = [call EXCEPT !.done = TRUE,
                          !.result = calculateFinalEstimate(call.values, call.scale)]
  /\ UNCHANGED <<store, wire, sent, skipped, revealed, restartCleared, observers>>

Resolve ==
  /\ call.fn = "onSubmit"
  /\ ~call.done
  /\ call' = [call EXCEPT !.done = TRUE,
                          !.result = onSubmit(call.scaleType, call.customScale)]
  /\ UNCHANGED <<store, wire, sent, skipped, revealed, restartCleared, observers>>

NextScale == Estimate \/ Resolve

\* one session and its host, on a storage whose calls can fail
NextFaults ==
  \/ HostSide
  \/ \E c \in Conns, id \in SessionIds, st \in StoryIds, failAt \in FailPoints :
       skip_story_failing(c, id, st, failAt)
  \/ \E c \in Conns, id \in SessionIds, st \in StoryIds, fe \in FinalEstimates,
          failAt \in FailPoints :
       next_story_failing(c, id, st, fe, failAt)
  \/ Create(1, MaxStories)

\* one session and the connections of its host; skip_story and next_story
\* handlers are suspended at their awaits while other handlers run
NextAdvance ==
  \/ Deliver
  \/ \E c \in Conns : Connect(c)
  \/ \E c \in Conns, id \in SessionIds, u \in Users, token \in Tokens :
       host_join_session(c, id, u, token)
  \/ \E c \in Conns, id \in SessionIds, st \in StoryIds : skip_begin(c, id, st)
  \/ \E c \in Conns, id \in SessionIds, st \in StoryIds, fe \in FinalEstimates :
       next_begin(c, id, st, fe)
  \/ \E c \in Conns : advance_deactivate(c)
  \/ \E c \in Conns : advance_activate(c)
  \/ \E c \in Conns : advance_clear(c)
  \/ Create(1, MaxStories)

\* one session of one story, its host and a participant; a vote handler is
\* suspended at its await while the host moves the session on
NextLateVote ==
  \/ Deliver
  \/ \E c \in Conns : Connect(c)
  \/ \E c \in Conns, id \in SessionIds, u \in Users, token \in Tokens :
       host_join_session(c, id, u, token)
  \/ \E c \in Conns, id \in SessionIds, st \in StoryIds : skip_story(c, id, st)
  \/ \E c \in Conns, id \in SessionIds, st \in StoryIds, fe \in FinalEstimates :
       next_story(c, id, st, fe)
  \/ \E id \in SessionIds, alias \in Aliases : JoinRequest(id, alias)
  \/ \E c \in Conns, id \in SessionIds, p \in ParticipantIds : join_session(c, id, p)
  \/ \E c \in Conns, id \in SessionIds, st \in StoryIds, v \in Values :
       vote_begin(c, id, st, v)
  \/ \E c \in Conns : vote_end(c)
  \/ Create(1, 1)

\* one session, its host and a participant who votes; next_story handlers
\* are suspended at their awaits while votes are handled
NextClear ==
  \/ Deliver
  \/ \E c \in Conns : Connect(c)
  \/ \E c \in Conns, id \in SessionIds, u \in Users, token \in Tokens :
       host_join_session(c, id, u, token)
  \/ \E c \in Conns, id \in SessionIds, st \in StoryIds, fe \in FinalEstimates :
       next_begin(c, id, st, fe)
  \/ \E c \in Conns : advance_activate(c)
  \/ \E c \in Conns : advance_clear(c)
  \/ \E id \in SessionIds, alias \in Aliases : JoinRequest(id, alias)
  \/ \E c \in Conns, id \in SessionIds, p \in ParticipantIds : join_session(c, id, p)
  \/ \E c \in Conns, id \in SessionIds, st \in StoryIds, v \in Values :
       vote(c, id, st, v)
  \/ Create(1, MaxStories)

Spec == Init /\ [][Next]_vars

SpecAdvance == InitSkips /\ [][NextAdvance]_vars

SpecLateVote == InitSkips /\ [][NextLateVote]_vars

SpecClear == Init /\ [][NextClear]_vars

SpecFaults == Init /\ [][NextFaults]_vars

SpecScale == InitScale /\ [][NextScale]_vars

SpecFlagged == Init /\ [][NextFlagged]_vars

SpecJoin == Init /\ [][NextJoin]_vars

SpecRace == Init /\ [][NextRace]_vars

SpecTwo == Init /\ [][NextTwo]_vars

SpecRounds == InitRounds /\ [][NextRounds]_vars

SpecBacklog == InitSkips /\ [][NextBacklog]_vars

(* ------------------------------ properties ----------------------------- *)
\* vocabulary of the properties, stated on the stored state
StoriesOf(id) == {i \in DOMAIN userStories : userStories[i].sessionId = id}

ActiveOf(id) == {i \in StoriesOf(id) : userStories[i].isActive}

\* connection c is registered as the host of session id
RegisteredHost(c, id) == clients[c].isHost /\ clients[c].sessionId = id

\* connection c is registered as a participant of session id
RegisteredParticipant(c, id) ==
  clients[c].participantId # Null /\ clients[c].sessionId = id

\* story st is the active story of session id
ActiveStoryOf(st, id) ==
  st \in DOMAIN userStories /\ userStories[st].sessionId = id /\ userStories[st].isActive

\* the handler answered with an error to connection c, and sent nothing else
OnlyErrorTo(r, c) ==
  /\ r.sent # {}
  /\ \A m \in r.sent : m.to = c /\ m.type = "error"

\* what each of the four host commands of connection c would leave behind
HostCommandOutcomes(c, id, st) ==
  {handleRevealVotes(c, id, st), handleRestartVote(c, id, st), handleSkipStory(c, id, st)}
    \cup {handleNextStory(c, id, st, fe) : fe \in FinalEstimates}

HostErrors == {"Only the host can reveal votes", "Only the host can restart voting",
               "Only the host can skip stories", "Only the host can move to the next story"}

\* C1: with every handler run to completion before the next one starts, every
\* session has at most one story with isActive = true in every reachable state.
AtMostOneActive == \A id \in SessionIds : Cardinality(ActiveOf(id)) <= 1

\* C1 witness: a next_story has moved a session on: its first story is completed
\* and a later story is the active one.
MovedToLaterStory ==
  \E i, j \in DOMAIN userStories :
    /\ userStories[i].sessionId = userStories[j].sessionId
    /\ userStories[i].order < userStories[j].order
    /\ userStories[i].isCompleted
    /\ userStories[j].isActive

CompletedHasEstimate ==
  \A i \in DOMAIN userStories :
    userStories[i].isCompleted =>
      userStories[i].finalEstimate # Null /\ ~userStories[i].isActive

\* C4, as stated: a session has exactly one active story, or it has none and
\* every story of it was completed by next_story or skipped by skip_story.
OneActiveUnlessAllDone ==
  \A id \in DOMAIN sessions :
    \/ Cardinality(ActiveOf(id)) = 1
    \/ /\ ActiveOf(id) = {}
       /\ \A i \in StoriesOf(id) : userStories[i].isCompleted \/ i \in skipped

\* C5: a host command of a connection that is not registered as the host of the
\* named session is answered with an error to that connection only, and changes
\* no story, vote or participant.
NonHostCommandRejected ==
  Delivered =>
    \A c \in DOMAIN clients, id \in SessionIds, st \in StoryIds :
      ~RegisteredHost(c, id) =>
        \A r \in HostCommandOutcomes(c, id, st) :
          /\ OnlyErrorTo(r, c)
          /\ r.userStories = userStories
          /\ r.votes = votes
          /\ r.participants = participants

\* C5 witness: the host of one session was refused a command on another session.
HostOfOtherSessionRefused ==
  \E m \in sent : /\ m.type = "error"
                  /\ m.message \in HostErrors
                  /\ m.to \in DOMAIN clients
                  /\ clients[m.to].isHost

\* C6, as stated: a vote of a connection whose role is host, or that is not
\* registered as a participant of the named session, is answered with an error and
\* stores nothing.
VoteOfHostOrStrangerRejected ==
  Delivered =>
    \A c \in DOMAIN clients, id \in SessionIds, st \in StoryIds, v \in Values :
      (clients[c].isHost \/ ~RegisteredParticipant(c, id)) =>
        LET r == handleVote(c, id, st, v)
        IN OnlyErrorTo(r, c) /\ r.votes = votes

\* C7: a vote naming a story that is not the active story of the named session is
\* answered with an error to the sender only (no vote_recorded, participant_voted
\* or all_voted), and no vote is created or changed.
VoteOnInactiveStoryRejected ==
  Delivered =>
    \A c \in DOMAIN clients, id \in SessionIds, st \in StoryIds, v \in Values :
      ~ActiveStoryOf(st, id) =>
        LET r == handleVote(c, id, st, v)
        IN OnlyErrorTo(r, c) /\ r.votes = votes

\* C7 witness: a registered participant was refused a vote because of the story.
VoteRefusedForStory ==
  \E m \in sent : /\ m.type = "error"
                  /\ m.message = "Cannot vote on this story"
                  /\ m.to \in DOMAIN clients
                  /\ clients[m.to].participantId \in DOMAIN participants

\* C8, as stated: a host command of the session's host naming a story that is not
\* the active story of the session is answered with an error to the caller only,
\* and changes no story and no vote.
CommandOnInactiveStoryRejected ==
  Delivered =>
    \A c \in DOMAIN clients, id \in SessionIds, st \in StoryIds :
      (RegisteredHost(c, id) /\ ~ActiveStoryOf(st, id)) =>
        \A r \in HostCommandOutcomes(c, id, st) :
          /\ OnlyErrorTo(r, c)
          /\ r.userStories = userStories
          /\ r.votes = votes

\* C9, as stated: after an accepted reveal_votes of a story, and until its voting
\* is restarted, a vote for that story (here: of a connection that joined as a
\* stored participant of the session) is answered with an error and leaves the
\* stored votes unchanged.
NoVoteAfterReveal ==
  Delivered =>
    \A c \in DOMAIN clients, id \in SessionIds, st \in revealed, v \in Values :
      (/\ RegisteredParticipant(c, id)
       /\ clients[c].participantId \in getSessionParticipants(participants, id)) =>
        LET r == handleVote(c, id, st, v)
        IN OnlyErrorTo(r, c) /\ r.votes = votes

\* C10: an accepted restart_vote deletes every vote of the story and leaves the
\* story active and not completed; a later vote on it by a participant whose vote
\* the restart deleted is accepted and stored.
RestartClearsAndReopens ==
  Delivered =>
    /\ \A c \in DOMAIN clients, id \in SessionIds, st \in StoryIds :
         (RegisteredHost(c, id) /\ ActiveStoryOf(st, id)) =>
           LET r == handleRestartVote(c, id, st)
           IN /\ \A v \in r.votes : v.userStoryId # st
              /\ \A v \in votes : v.userStoryId # st => v \in r.votes
              /\ r.userStories[st].isActive
              /\ ~r.userStories[st].isCompleted
              /\ \E m \in r.sent : m.type = "voting_restarted" /\ m.userStoryId = st
    /\ \A c \in DOMAIN clients, id \in SessionIds, v \in Values :
         \A pr \in restartCleared :
           (/\ RegisteredParticipant(c, id)
            /\ clients[c].participantId = pr[1]
            /\ ActiveStoryOf(pr[2], id)) =>
             LET r == handleVote(c, id, pr[2], v)
             IN /\ \E w \in r.votes : /\ w.participantId = pr[1]
                                     /\ w.userStoryId = pr[2]
                                     /\ w.value = v
                /\ \E m \in r.sent : /\ m.type = "vote_recorded"
                                     /\ m.to = c
                                     /\ m.userStoryId = pr[2]
                                     /\ m.value = v

\* C10 witness: a participant whose vote a restart deleted has voted again on the
\* restarted story, and the vote is stored.
VotedAgainAfterRestart ==
  \E m \in sent :
    /\ m.type = "vote_recorded"
    /\ m.to \in DOMAIN clients
    /\ <<clients[m.to].participantId, m.userStoryId>> \in restartCleared
    /\ \E v \in votes : /\ v.participantId = clients[m.to].participantId
                        /\ v.userStoryId = m.userStoryId

\* C11, as stated: there is at most one stored vote per (participant, story)
\* pair, and right after a vote is acknowledged the stored value of the pair is
\* the acknowledged one, also while vote messages of one participant are handled
\* at the same time.
OneVotePerPairAndLatest ==
  /\ \A v, w \in votes :
       (v.participantId = w.participantId /\ v.userStoryId = w.userStoryId) => v = w
  /\ \A m \in sent :
       (m.type = "vote_recorded" /\ m.to \in DOMAIN clients) =>
         \A v \in VotesOfPair(votes, clients[m.to].participantId, m.userStoryId) :
           v.value = m.value

\* C12: a next_story leaves the votes of the story it marks completed as they
\* are, every later reveal, restart, skip and next leaves the votes of every
\* completed story as they are, and a host that joins gets the votes of the
\* session's completed stories in host_session_joined.
CompletedVotesKept ==
  Delivered =>
    /\ \A c \in DOMAIN clients, id \in SessionIds, st \in StoryIds :
         \A r \in HostCommandOutcomes(c, id, st) :
           \A i \in DOMAIN r.userStories :
             r.userStories[i].isCompleted =>
               getVotesByUserStory(r.votes, i) = getVotesByUserStory(votes, i)
    /\ \A c \in DOMAIN clients, id \in SessionIds, u \in Users, token \in Tokens :
         LET r == handleHostJoinSession(c, id, u, token)
         IN r.accepted =>
              \E m \in r.sent :
                /\ m.type = "host_session_joined"
                /\ m.to = c
                /\ m.votes = {v \in votes : /\ v.userStoryId \in StoriesOf(id)
                                            /\ userStories[v.userStoryId].isCompleted}

\* C12 witness: a host has joined a session in which a story was completed
\* earlier and a later story is active, and was sent the votes of the completed story.
HostGotCompletedVotes ==
  \E m \in sent :
    /\ m.type = "host_session_joined"
    /\ m.votes # {}
    /\ m.userStoryId # Null
    /\ \A v \in m.votes : v \in votes /\ v.userStoryId # m.userStoryId

\* C13: in every step in which a story becomes active (it is created active,
\* or a skip_story or next_story activates it), the story has no stored vote
\* in the state the step leads to.
ActivatedStoryHasNoVotes ==
  [][\A i \in DOMAIN userStories' :
       (userStories'[i].isActive /\ ~(i \in DOMAIN userStories /\ userStories[i].isActive))
         => getVotesByUserStory(votes', i) = {}]_vars

\* C13 witness: a skip_story or next_story has just activated a story, while
\* the story that was left has stored votes.
ActivatedAfterVotedStory ==
  \E m \in sent :
    /\ m.type \in {"story_skipped", "next_story_activated"}
    /\ m.nextStoryId \in DOMAIN userStories
    /\ userStories[m.nextStoryId].isActive
    /\ getVotesByUserStory(votes, m.nextStoryId) = {}
    /\ getVotesByUserStory(votes, m.userStoryId) # {}

\* story i of session id waits for its turn: never active so far
PendingIn(i, id) ==
  /\ i \in StoriesOf(id)
  /\ ~userStories[i].isActive
  /\ ~userStories[i].isCompleted
  /\ i \notin skipped

\* C14, as stated: the story an accepted skip_story or next_story activates is
\* the pending story of lowest order among those after the story that was
\* active, and no completed or skipped story is active.
ActivatesNextPendingOnly ==
  /\ \A i \in DOMAIN userStories :
       userStories[i].isActive => ~userStories[i].isCompleted /\ i \notin skipped
  /\ Delivered =>
       \A c \in DOMAIN clients, id \in SessionIds, st \in StoryIds :
         \A r \in {handleSkipStory(c, id, st)}
                    \cup {handleNextStory(c, id, st, fe) : fe \in FinalEstimates} :
           \A n \in r.activated :
             \E a \in ActiveOf(id) :
               /\ PendingIn(n, id)
               /\ userStories[n].order > userStories[a].order
               /\ \A k \in StoriesOf(id) :
                    (PendingIn(k, id) /\ userStories[k].order > userStories[a].order)
                      => userStories[n].order <= userStories[k].order

\* C15, as stated: when a skip_story or next_story broadcasts
\* all_stories_completed, the session has no active story in the state the
\* handler leaves.
NoActiveStoryWhenAllCompleted ==
  Delivered =>
    \A c \in DOMAIN clients, id \in SessionIds, st \in StoryIds :
      \A r \in {handleSkipStory(c, id, st)}
                 \cup {handleNextStory(c, id, st, fe) : fe \in FinalEstimates} :
        (\E m \in r.sent : m.type = "all_stories_completed") =>
          \A i \in DOMAIN r.userStories :
            r.userStories[i].sessionId = id => ~r.userStories[i].isActive

\* the replies a join request for (id, alias) can get in the current state
JoinReplies(id, alias) ==
  {joinSession(id, alias, e) :
     e \in FirstOf(participants,
                   DatabaseStorage_getParticipantByAlias(participants, id, alias))}

\* C16, as stated: a join request whose alias equals, ignoring case, the alias
\* of a participant of the session is refused without a change when that
\* participant is connected, and otherwise returns that participant's id,
\* sets its liveness true and creates no record.
AliasCollisionHandled ==
  \A id \in DOMAIN sessions, alias \in Aliases, p \in DOMAIN participants :
    (participants[p].sessionId = id
       /\ toLowerCase(participants[p].alias) = toLowerCase(alias)) =>
      \A r \in JoinReplies(id, alias) :
        IF participants[p].isConnected
        THEN r.status = 409 /\ r.participants = participants
        ELSE /\ r.participant = p
             /\ DOMAIN r.participants = DOMAIN participants
             /\ r.participants[p].isConnected

\* C17, as stated: no two connected participants of a session have aliases
\* that are equal ignoring case.
ConnectedAliasesDiffer ==
  \A p, q \in DOMAIN participants :
    (/\ p # q
     /\ participants[p].sessionId = participants[q].sessionId
     /\ participants[p].isConnected
     /\ participants[q].isConnected)
      => toLowerCase(participants[p].alias) # toLowerCase(participants[q].alias)

\* C18: in every step in which the connection of a participant closes, the
\* participant's isConnected becomes false, nothing else of any participant
\* record changes, no vote changes, and participant_disconnected naming the
\* participant is sent to every remaining connection of the session.
CloseKeepsRecordAndVotes ==
  [][\A c \in DOMAIN clients :
       (c \notin DOMAIN clients' /\ clients[c].participantId \in DOMAIN participants) =>
         LET p == clients[c].participantId IN
           /\ participants' = [participants EXCEPT ![p].isConnected = FALSE]
           /\ votes' = votes
           /\ \A d \in DOMAIN clients' :
                clients'[d].sessionId = clients[c].sessionId =>
                  \E m \in sent' : /\ m.to = d
                                   /\ m.type = "participant_disconnected"
                                   /\ m.participantId = p]_vars

\* C18 witness: participant_disconnected has been sent for a participant who
\* has a stored vote and is now marked disconnected.
DisconnectedVoterKept ==
  \E m \in sent :
    /\ m.type = "participant_disconnected"
    /\ m.participantId \in DOMAIN participants
    /\ ~participants[m.participantId].isConnected
    /\ \E v \in votes : v.participantId = m.participantId

\* the account a credential belongs to, Null when it belongs to nobody
Caller(token) == IF IsDevToken(token) THEN DevUser ELSE verifyIdToken(token)

\* C19, as stated: a delete request of anybody but the session's host is
\* refused and changes nothing, and a delete request that is carried out
\* leaves no story, participant or vote of the session and changes no story,
\* participant or vote of another session.
DeletedOnlyByOwner ==
  \A token \in Tokens, id \in DOMAIN sessions :
    LET r == deleteSessionRoute(token, id) IN
      /\ Caller(token) # sessions[id].hostId =>
           /\ r.status # 200
           /\ r.sessions = sessions
           /\ r.userStories = userStories
           /\ r.participants = participants
           /\ r.votes = votes
      /\ r.status = 200 =>
           /\ id \notin DOMAIN r.sessions
           /\ \A i \in DOMAIN r.userStories : r.userStories[i].sessionId # id
           /\ \A p \in DOMAIN r.participants : r.participants[p].sessionId # id
           /\ \A v \in r.votes : v.userStoryId \notin StoriesOf(id)
           /\ \A i \in DOMAIN userStories \ StoriesOf(id) :
                i \in DOMAIN r.userStories /\ r.userStories[i] = userStories[i]
           /\ \A p \in DOMAIN participants :
                participants[p].sessionId # id =>
                  p \in DOMAIN r.participants /\ r.participants[p] = participants[p]
           /\ \A v \in votes : v.userStoryId \notin StoriesOf(id) => v \in r.votes

\* C20, as stated: the vote of a participant of the session that is accepted
\* sends all_voted if and only if, with that vote stored, every participant
\* of the session whose isConnected is true has a vote for the active story.
AllVotedIffEveryoneVoted ==
  Delivered =>
    \A c \in DOMAIN clients, id \in SessionIds, st \in StoryIds, value \in Values :
      LET r == handleVote(c, id, st, value) IN
        (/\ r.accepted
         /\ clients[c].participantId \in DOMAIN participants
         /\ participants[clients[c].participantId].sessionId = id) =>
          ((\E m \in r.sent : m.type = "all_voted")
             <=> \A p \in DOMAIN r.participants :
                   (r.participants[p].sessionId = id /\ r.participants[p].isConnected) =>
                     \E w \in r.votes : /\ w.participantId = p
                                        /\ w.userStoryId \in DOMAIN r.userStories
                                        /\ r.userStories[w.userStoryId].sessionId = id
                                        /\ r.userStories[w.userStoryId].isActive)

\* C21, as stated: an all_voted message is sent only to the connections of a
\* session whose notificationsEnabled flag is set.
AllVotedOnlyWhenEnabled ==
  \A m \in sent :
    m.type = "all_voted" =>
      /\ m.to \in DOMAIN clients
      /\ clients[m.to].sessionId \in DOMAIN sessions
      /\ sessions[clients[m.to].sessionId].notificationsEnabled

\* C22: no message tells a connection the value of a vote for an active story
\* that the host has not revealed, except vote_recorded, which goes to a
\* connection of the voter alone: votes_revealed is sent only by an accepted
\* reveal of the story, every other message carries no vote of an active
\* story, and no message but vote_recorded, votes_revealed and the final
\* estimate of next_story carries a value (participant_voted carries none).
HiddenVotesStayHidden ==
  \A m \in sent :
    /\ m.type = "vote_recorded" =>
         /\ m.to \in DOMAIN clients
         /\ \E w \in votes : /\ w.participantId = clients[m.to].participantId
                             /\ w.userStoryId = m.userStoryId
                             /\ w.value = m.value
    /\ m.type = "votes_revealed" => m.userStoryId \in revealed
    /\ m.type # "votes_revealed" =>
         \A w \in m.votes : ~(w.userStoryId \in DOMAIN userStories
                                /\ userStories[w.userStoryId].isActive)
    /\ m.value # Null =>
         m.type \in {"vote_recorded", "votes_revealed", "next_story_activated",
                     "all_stories_completed"}

\* C22 witness: the host's connection is told that a participant voted, the
\* vote is stored for the active story, and the story has not been revealed.
OthersToldOfHiddenVote ==
  \E m \in sent :
    /\ m.type = "participant_voted"
    /\ m.to \in DOMAIN clients
    /\ clients[m.to].participantId # m.participantId
    /\ m.userStoryId \notin revealed
    /\ \E w \in votes : w.participantId = m.participantId /\ w.userStoryId = m.userStoryId

\* C23: calculateFinalEstimate returns 0 for an empty list of votes, and for
\* a non-empty list and an ascending scale the smallest element of the scale
\* that is at least the mean of the votes, or the largest element of the scale
\* when the mean is above all of them.
EstimateIsNextOnScale ==
  (call.fn = "calculateFinalEstimate" /\ call.done) =>
    LET n == Len(call.values)
        sum == SumSeq(call.values)
        elems == {call.scale[i] : i \in 1..Len(call.scale)}
        atLeastMean == {e \in elems : e * n >= sum}
    IN IF n = 0 THEN call.result = 0
       ELSE IF atLeastMean # {}
       THEN call.result \in atLeastMean /\ \A e \in atLeastMean : call.result <= e
       ELSE call.result \in elems /\ \A e \in elems : e <= call.result

\* C23 witness: the votes 3, 5, 8 on the Fibonacci scale gave 8.
EstimateOfThreeFiveEight ==
  /\ call.fn = "calculateFinalEstimate"
  /\ call.done
  /\ call.values = <<3, 5, 8>>
  /\ call.scale = generateFibonacciScale
  /\ call.result = 8

\* an entry that is a number: decimal digits, with blanks around them at most
ValidNumber(e) ==
  \E i, j \in 1..Len(e) :
    /\ i <= j
    /\ \A k \in 1..Len(e) : IF i <= k /\ k <= j THEN IsDigit(e[k]) ELSE e[k] = " "

\* the number a valid entry stands for
RECURSIVE ValueOf(_)
ValueOf(e) ==
  IF e = <<>> THEN 0
  ELSE IF e[Len(e)] = " " THEN ValueOf(SubSeq(e, 1, Len(e) - 1))
  ELSE IF Head(e) = " " THEN ValueOf(Tail(e))
  ELSE 10 * ValueOf(SubSeq(e, 1, Len(e) - 1))
         + (CHOOSE d \in 0..9 : DigitChars[d + 1] = e[Len(e)])

\* C24: for a custom scale, onSubmit yields the built-in scale when no entry
\* is a valid number, and otherwise the values of the valid entries in
\* ascending order, cut to the 100 smallest: the result is ascending, has
\* min(number of valid entries, 100) elements, holds no value more often than
\* the entries do, and every valid entry left out is at least its last element.
ResolveSortsAndCuts ==
  (call.fn = "onSubmit" /\ call.done /\ call.scaleType = "custom") =>
    LET valid == {i \in 1..Len(call.entries) : ValidNumber(call.entries[i])}
        res == call.result
        InEntries(x) == Cardinality({i \in valid : ValueOf(call.entries[i]) = x})
        InResult(x) == Cardinality({i \in 1..Len(res) : res[i] = x})
    IN IF valid = {} THEN res = <<1, 2, 3, 5, 8, 13, 21, 34, 55, 89>>
       ELSE /\ Len(res) = IF Cardinality(valid) > 100 THEN 100 ELSE Cardinality(valid)
            /\ \A i, j \in 1..Len(res) : i < j => res[i] <= res[j]
            /\ \A i \in 1..Len(res) : InResult(res[i]) <= InEntries(res[i])
            /\ \A i \in valid :
                 InResult(ValueOf(call.entries[i])) < InEntries(ValueOf(call.entries[i]))
                   => ValueOf(call.entries[i]) >= res[Len(res)]

\* C24 witness: the list 130, 129, ..., 1 was sorted and cut to 1, ..., 100.
ResolvedLongList ==
  /\ call.fn = "onSubmit"
  /\ call.done
  /\ Len(call.entries) = 130
  /\ call.result = [i \in 1..100 |-> i]

\* C25, as stated: every scale onSubmit yields is a strictly ascending sequence
\* of positive integers with 1 to 100 elements.
ResolvedScaleStrictlyAscending ==
  (call.fn = "onSubmit" /\ call.done) =>
    /\ Len(call.result) >= 1
    /\ Len(call.result) <= 100
    /\ \A i \in 1..Len(call.result) : call.result[i] > 0
    /\ \A i, j \in 1..Len(call.result) : i < j => call.result[i] < call.result[j]

\* C26, as stated: the value of every stored vote of a participant is an
\* element of the scale of the session the voted story belongs to.
VoteValuesOnScale ==
  \A v \in votes :
    (v.participantId \in DOMAIN participants
       /\ v.userStoryId \in DOMAIN userStories
       /\ userStories[v.userStoryId].sessionId \in DOMAIN sessions) =>
      LET scale == sessions[userStories[v.userStoryId].sessionId].scale
      IN \E i \in 1..Len(scale) : scale[i] = v.value

\* C27, as stated: while a handler of a session is between its first read and
\* its last send, no step starts another handler of that session, changes a
\* vote or a story of that session, or sends a message to a connection of
\* that session.
HandlersOfASessionSerialised ==
  [][\A c \in DOMAIN pending :
       c \in DOMAIN pending' =>
         LET id == pending[c].sessionId IN
           /\ \A d \in DOMAIN pending' \ DOMAIN pending : pending'[d].sessionId # id
           /\ \A i \in StoriesOf(id) :
                /\ i \in DOMAIN userStories' /\ userStories'[i] = userStories[i]
                /\ getVotesByUserStory(votes', i) = getVotesByUserStory(votes, i)
           /\ \A m \in sent' : m.to \in DOMAIN clients' => clients'[m.to].sessionId # id]_vars

\* the handler's catch block answered: a storage call had failed
FailedReply(r) ==
  \E m \in r.sent : m.message \in {"Failed to skip story", "Failed to move to next story"}

\* C28, as stated: when a storage call of skip_story or next_story fails, the
\* sender alone gets an error and the stories and votes are those from before
\* the message.
FailureLeavesStateAsBefore ==
  Delivered =>
    \A c \in DOMAIN clients, id \in SessionIds, st \in StoryIds, failAt \in FailPoints :
      \A r \in {handleSkipStoryFailing(c, id, st, failAt)}
                 \cup {handleNextStoryFailing(c, id, st, fe, failAt) :
                         fe \in FinalEstimates} :
        FailedReply(r) =>
          /\ OnlyErrorTo(r, c)
          /\ r.userStories = userStories
          /\ r.votes = votes

\* C29, as stated: a join_session that names a session or a participant that
\* does not exist is answered with an error to the sender alone and changes
\* nothing: the connection keeps its registered session and participant, and
\* no liveness flag changes.
JoinOfUnknownChangesNothing ==
  Delivered =>
    \A c \in DOMAIN clients, id \in SessionIds, p \in ParticipantIds :
      (id \notin DOMAIN sessions \/ p \notin DOMAIN participants) =>
        LET r == handleJoinSession(c, id, p)
        IN /\ OnlyErrorTo(r, c)
           /\ r.clients = clients
           /\ r.participants = participants

\* C30, as stated: next_story completes a story only after the host's
\* reveal_votes for it was accepted since its activation or last restart; the
\* host's next_story for an active story not so revealed is rejected and
\* changes no state.
NextStoryOnlyAfterReveal ==
  Delivered =>
    \A c \in DOMAIN clients, id \in SessionIds, st \in StoryIds, fe \in FinalEstimates :
      (RegisteredHost(c, id) /\ ActiveStoryOf(st, id) /\ st \notin revealed) =>
        LET r == handleNextStory(c, id, st, fe)
        IN /\ OnlyErrorTo(r, c)
           /\ r.userStories = userStories
           /\ r.votes = votes
           /\ r.participants = participants
           /\ r.clients = clients

\* sum of the values of a set of votes
RECURSIVE SumOfVotes(_)
SumOfVotes(vs) ==
  IF vs = {} THEN 0
  ELSE LET v == CHOOSE w \in vs : TRUE IN v.value + SumOfVotes(vs \ {v})

\* the estimate of story st of session id: 0 without votes, else the least
\* element of the session's scale that is at least the mean of the stored
\* votes, or the greatest element when the mean is above all of them
EstimateOf(st, id) ==
  LET vs == {v \in votes : v.userStoryId = st}
      n == Cardinality(vs)
      scale == sessions[id].scale
      elems == {scale[i] : i \in 1..Len(scale)}
      atLeastMean == {e \in elems : e * n >= SumOfVotes(vs)}
  IN IF n = 0 THEN 0
     ELSE IF atLeastMean # {} THEN CHOOSE e \in atLeastMean : \A f \in atLeastMean : e <= f
     ELSE CHOOSE e \in elems : \A f \in elems : f <= e

\* C31: a reveal_votes of the registered host for the active story changes no
\* stored state: the story is still active with no final estimate, the votes,
\* the participants and the connections are as before, and the estimate of
\* the stored votes on the session's scale is carried by the votes_revealed
\* messages, which are all that is sent.
RevealChangesNothing ==
  Delivered =>
    \A c \in DOMAIN clients, id \in DOMAIN sessions, st \in StoryIds :
      (RegisteredHost(c, id) /\ ActiveStoryOf(st, id)) =>
        LET r == handleRevealVotes(c, id, st)
        IN /\ r.userStories = userStories
           /\ r.userStories[st].isActive
           /\ r.userStories[st].finalEstimate = Null
           /\ r.votes = votes
           /\ r.participants = participants
           /\ r.clients = clients
           /\ r.sent # {}
           /\ \A m \in r.sent :
                /\ m.type = "votes_revealed"
                /\ m.userStoryId = st
                /\ m.value = EstimateOf(st, id)

\* C31 witness: votes were revealed with an estimate above the vote cast, and
\* the revealed story is active with no final estimate.
RevealedAnEstimate ==
  \E m \in sent :
    /\ m.type = "votes_revealed"
    /\ \E v \in m.votes : v.value < m.value
    /\ m.userStoryId \in DOMAIN userStories
    /\ userStories[m.userStoryId].isActive
    /\ userStories[m.userStoryId].finalEstimate = Null

\* session id has stories; the one of lowest order is active, the others are
\* neither active nor completed and have no final estimate, and none has a vote
LowestActiveOthersPending(id) ==
  /\ StoriesOf(id) # {}
  /\ \A i \in StoriesOf(id) :
       /\ userStories[i].isActive <=>
            \A j \in StoriesOf(id) : userStories[i].order <= userStories[j].order
       /\ ~userStories[i].isCompleted
       /\ userStories[i].finalEstimate = Null
       /\ \A v \in votes : v.userStoryId # i
  /\ Cardinality({i \in StoriesOf(id) : userStories[i].isActive}) = 1

\* C32: right after a session is created with at least one story, exactly its
\* story of lowest order is active, every other story is pending, and no vote
\* exists for any of them.
CreatedSessionStartsAtFirstStory ==
  [][\A id \in DOMAIN sessions' \ DOMAIN sessions : LowestActiveOthersPending(id)']_vars

\* C32 witness: a session of several stories that nobody has joined yet stands
\* at its first story.
SessionOfTwoJustCreated ==
  \E id \in DOMAIN sessions :
    /\ Cardinality(StoriesOf(id)) >= 2
    /\ LowestActiveOthersPending(id)
    /\ \A c \in DOMAIN clients : clients[c].sessionId # id

\* C33, as stated: also when skip_story and next_story handlers of a session
\* interleave at their storage calls, the session has at most one active story
\* and no story is both completed and active.
OneActiveWhenCommandsInterleave ==
  /\ \A id \in DOMAIN sessions : Cardinality(ActiveOf(id)) <= 1
  /\ \A i \in DOMAIN userStories : ~(userStories[i].isCompleted /\ userStories[i].isActive)

\* C34, as stated: no vote of a participant is created or overwritten for a
\* story that has been completed or skipped, also when the vote's handler runs concurrently with
\* the next_story or skip_story that ends the story.
NoVoteWrittenAfterStoryEnded ==
  [][\A v \in votes' \ votes :
       v.participantId \in DOMAIN participants =>
         /\ v.userStoryId \in DOMAIN userStories => ~userStories[v.userStoryId].isCompleted
         /\ v.userStoryId \notin skipped]_vars

\* C35, as stated: a participant's vote that was stored and acknowledged with
\* vote_recorded stays stored with its value until the same participant votes
\* again on the story, the host restarts the story's voting, or the session is
\* deleted; no other step, and no skip_story or next_story handler, erases it.
AcknowledgedVoteStays ==
  [][\A v \in votes :
       v.participantId \in DOMAIN participants =>
         \/ \E w \in votes' : /\ w.participantId = v.participantId
                              /\ w.userStoryId = v.userStoryId
                              /\ (w.value = v.value \/ \E m \in sent' : m.type = "vote_recorded")
         \/ \E m \in sent' : m.type = "voting_restarted" /\ m.userStoryId = v.userStoryId
         \/ v.userStoryId \notin DOMAIN userStories']_vars

\* C36, as stated: a connection whose isHost flag is set is registered to a
\* session owned by the user it authenticated as, and a join_session never
\* lets a connection pass the host check of a session for which it had not
\* passed host_join_session.
HostFlagMeansAuthenticated ==
  /\ \A c \in DOMAIN clients :
       clients[c].isHost =>
         /\ clients[c].sessionId \in DOMAIN sessions
         /\ sessions[clients[c].sessionId].hostId = clients[c].userId
  /\ Delivered =>
       \A c \in DOMAIN clients, id \in DOMAIN sessions, p \in DOMAIN participants :
         participants[p].sessionId = id =>
           LET r == handleJoinSession(c, id, p)
           IN (r.clients[c].isHost /\ r.clients[c].sessionId = id) => RegisteredHost(c, id)

\* what a message of connection c that names session id would leave behind
OutcomesNaming(c, id) ==
  UNION {HostCommandOutcomes(c, id, st) : st \in StoryIds}
    \cup {handleVote(c, id, st, v) : st \in StoryIds, v \in Values}
    \cup {handleJoinSession(c, id, p) : p \in ParticipantIds}

\* C37, as stated: a message that names session A changes no story, vote or
\* participant of another session; in particular a next_story that names A
\* and a story of B leaves B's stories as they are.
MessageStaysInItsSession ==
  Delivered =>
    \A c \in DOMAIN clients, id \in DOMAIN sessions :
      \A r \in OutcomesNaming(c, id) :
        /\ \A i \in DOMAIN userStories :
             userStories[i].sessionId # id =>
               /\ r.userStories[i] = userStories[i]
               /\ getVotesByUserStory(r.votes, i) = getVotesByUserStory(votes, i)
        /\ \A p \in DOMAIN participants :
             participants[p].sessionId # id => r.participants[p] = participants[p]

\* C38, in the direction the claim singles out: with every close event
\* handled, a participant who has an open connection registered with its id is
\* not marked disconnected.
OpenConnectionMeansConnected ==
  Delivered =>
    \A c \in DOMAIN clients :
      clients[c].participantId \in DOMAIN participants =>
        participants[clients[c].participantId].isConnected

\* C39, as stated, for the connections whose participant record exists: the
\* record's session is the session the connection is registered to, and every
\* stored vote of a participant is for a story of the participant's session.
ParticipantsStayInTheirSession ==
  /\ \A c \in DOMAIN clients :
       clients[c].participantId \in DOMAIN participants =>
         participants[clients[c].participantId].sessionId = clients[c].sessionId
  /\ \A v \in votes :
       (v.participantId \in DOMAIN participants /\ v.userStoryId \in DOMAIN userStories) =>
         participants[v.participantId].sessionId = userStories[v.userStoryId].sessionId

\* C40, as stated: every accepted skip_story or next_story either leaves the
\* session with no active story or leaves active a story of strictly greater
\* order than the story that was active before it (so that a session of n
\* stories accepts at most n of them and ends with no active story).
AcceptedCommandMovesForward ==
  Delivered =>
    \A c \in DOMAIN clients, id \in DOMAIN sessions, st \in StoryIds :
      \A r \in {handleSkipStory(c, id, st)}
                 \cup {handleNextStory(c, id, st, fe) : fe \in FinalEstimates} :
        r.accepted =>
          LET after == {i \in DOMAIN r.userStories :
                          r.userStories[i].sessionId = id /\ r.userStories[i].isActive}
          IN \/ after = {}
             \/ /\ ActiveOf(id) # {}
                /\ \A n \in after, a \in ActiveOf(id) :
                     r.userStories[n].order > userStories[a].order

====
